---- MODULE Spec2Model ----
(***************************************************************************)
(* Model of the task orchestration core of linksniff (src/app.py): the     *)
(* SQLite task table, the settings value, the periodic dispatcher          *)
(* process_queue, the worker threads run_task and the facade handlers      *)
(* jobs, add, requeue, clear_completed, clear_all and set_concurrency.     *)
(*                                                                         *)
(* Every SQL statement is one atomic step.  Threads interleave between     *)
(* statements: a worker thread started by process_queue writes             *)
(* status='active' only in its own first step, and requeue runs its SELECT *)
(* and its UPDATE as two statements.  Every statement goes through         *)
(* execute_db_query and so either takes effect or raises.                  *)
(***************************************************************************)
EXTENDS Integers, Sequences, FiniteSets, TLC

\* ------------------------------------------------------------------ bounds
\* Largest task id the table may hold.
MaxId == 2
\* Number of worker threads started over a run.
MaxWorkers == 2
\* Number of lines one external process writes at most.
MaxLines == 1
\* Number of distinct readings of the clock among the rows' added_time.
MaxTime == 2
\* Number of requeue requests that may be between their SELECT and UPDATE.
MaxRequeue == 1
\* Number of requests the facade serves over a run.
MaxCalls == 3
\* Number of worker threads started over a run of scenario A, and of
\* scenario B (its two running workers included).
MaxWorkersA == 3
MaxWorkersB == 3
\* Number of worker threads started over a run of the two-task scenario
\* of the failing ticks.
MaxWorkersT == 3
\* Number of set_concurrency requests that may run side by side.
MaxSetters == 2
\* Number of worker threads started over a run of the scenario of the bulk
\* deletes.
MaxWorkersC == 2
\* Number of worker threads started over a run of the scenario of the
\* workers' exit routes.
MaxWorkersK == 2
\* Number of rows of the tables a single tick is run on, and number of
\* worker threads started over such a run.
MaxRowsG == 3
MaxWorkersG == 3
\* Number of worker threads started over a run of the scenario of the
\* waiting task.
MaxWorkersL == 2
\* Number of worker threads started over a run of the scenario of the
\* delete under a running worker (the running worker included).
MaxWorkersD == 2
\* Number of lines the process of the streaming scenario writes at most.
MaxLinesF == 5
\* Number of requeue requests that may be between their SELECT and UPDATE in
\* the scenario of the requeues side by side, and number of worker threads
\* started over a run of it.
MaxRequeueR == 2
MaxWorkersR == 2
\* Number of attempts whose outcomes are drawn for one call of
\* execute_db_query.
MaxAttempts == 4

\* --------------------------------------------------------------- constants
\* DEFAULT_CONCURRENCY (app.py:21).
DEFAULT_CONCURRENCY == 3
\* max_retries of execute_db_query (app.py:104).
max_retries == 3
\* Line threshold of the batched log update (app.py:205).  The source uses
\* 50; it is scaled to the lines a modelled process writes.
FlushLines == 2

\* add() derives the script name from the url's host (app.py:289-290): the
\* second-last label of the host.  Each of these sites has a script file
\* under SCRIPTS_DIR.
ScriptOfUrl ==
    [u \in {"http://x.com/1", "http://y.com/1", "http://z.com/1"} |->
       CASE u = "http://x.com/1" -> "x"
         [] u = "http://y.com/1" -> "y"
         [] u = "http://z.com/1" -> "z"]
\* The urls callers post to /add.
Urls == {"http://x.com/1", "http://y.com/1"}

\* Values a caller may post to /set_concurrency (int() accepts any integer).
ConcValues == {0, 1, DEFAULT_CONCURRENCY}

\* Readings of datetime.utcnow() that end up in added_time.
Times == 1..MaxTime
\* A reading of datetime.utcnow() written to start_time or end_time; its
\* value is never read back by the program.
Stamp == << "utcnow" >>

\* SQL NULL / Python None, and a present value.
Null == << >>
Some(v) == << v >>

VARIABLES
    tasks,          \* the tasks table: id -> row
    settings,       \* settings['concurrency'] in memory
    settings_file,  \* the concurrency stored in settings.json
    disp,           \* position and locals of process_queue
    workers,        \* the run_task threads started so far, in start order
    rq,             \* requeue requests between SELECT and UPDATE, per id
    active_count,   \* the global active_count
    calls,          \* requests the facade has accepted so far
    resp,           \* HTTP status of the facade handler that returned in
                    \* this step (0: no handler returned)
    issued,         \* the ids add() has returned so far, in order
    sc,             \* the set_concurrency requests running side by side
    q,              \* one call of execute_db_query: the outcomes its
                    \* attempts meet, and what it came to
    checkpoints     \* what the call of checkpoint_database made in this
                    \* step came to (0: no call, 1: the checkpoint was
                    \* made, 2: it raised and the exception was printed)

vars == << tasks, settings, settings_file, disp, workers, rq,
           active_count, calls, resp, issued, sc, q, checkpoints >>

\* What the scheduler, the workers and most handlers never touch.
aside == << issued, sc, q >>

Ids == 1..MaxId

NoResp == 0

\* No request has been inside set_concurrency.
NoSetters == << >>

\* No call of execute_db_query is looked at on its own.
NoQuery == << >>

\* ------------------------------------------------------- execute_db_query
AttemptOutcomes == {"ok", "locked", "error"}

\* The loop retrying after every error, "database is locked" or not.
RECURSIVE ExecuteFromRetryAll(_, _)
ExecuteFromRetryAll(att, attempt) ==
    IF att[attempt + 1] = "ok"
    THEN [result |-> "ok", attempts |-> attempt + 1]
    ELSE IF attempt < max_retries - 1
         THEN ExecuteFromRetryAll(att, attempt + 1)
         ELSE [result |-> "raise", attempts |-> attempt + 1]

\* The retry loop of execute_db_query over the outcomes of its attempts:
\* the result and the number of attempts made.
RECURSIVE ExecuteFrom(_, _)
ExecuteFrom(att, attempt) ==
    IF att[attempt + 1] = "ok"
    THEN [result |-> "ok", attempts |-> attempt + 1]
    ELSE IF att[attempt + 1] = "locked" /\ attempt < max_retries - 1
         THEN ExecuteFrom(att, attempt + 1)
         ELSE [result |-> "raise", attempts |-> attempt + 1]

execute_db_query(att) == ExecuteFrom(att, 0)

\* What a statement can come to: "ok" or "raise".
DbResults ==
    { execute_db_query(att).result : att \in [1..max_retries -> AttemptOutcomes] }

\* The outcomes the attempts of one call may meet, one after the other.
AttemptSeqs == [1..MaxAttempts -> AttemptOutcomes]

\* One call of execute_db_query whose attempts meet the outcomes att, before
\* it has run.
QueryOn(att) == << [att |-> att, result |-> "", attempts |-> 0] >>

\* The call runs to its return or its raise.
ExecuteDbQuery ==
    /\ q # NoQuery
    /\ q[1].result = ""
    /\ q' = << [q[1] EXCEPT !.result = execute_db_query(q[1].att).result,
                            !.attempts = execute_db_query(q[1].att).attempts] >>
    /\ UNCHANGED << tasks, settings, settings_file, disp, workers, rq,
                    active_count, calls, resp, issued, sc >>
    /\ checkpoints' = 0

\* ------------------------------------------------------------ table helpers
TaskIds == DOMAIN tasks

\* INTEGER PRIMARY KEY without AUTOINCREMENT: one more than the largest
\* rowid in the table, 1 for an empty table.
MaxOf(S) ==
    IF S = {} THEN 0 ELSE CHOOSE a \in S : \A b \in S : b <= a

NextRowId == MaxOf(TaskIds) + 1

\* An UPDATE modelled as REPLACE INTO a fresh table: the other rows are
\* lost.
UpdateRowOnly(tid, row) ==
    IF tid \in TaskIds THEN [t \in {tid} |-> row] ELSE tasks

\* UPDATE tasks SET ... WHERE id=tid: no row, no change.
UpdateRow(tid, row) ==
    IF tid \in TaskIds THEN [tasks EXCEPT ![tid] = row] ELSE tasks

\* SELECT DISTINCT script FROM tasks WHERE status='active'
DistinctActiveScripts ==
    { tasks[t].script : t \in { u \in TaskIds : tasks[u].status = "active" } }

PendingIds == { t \in TaskIds : tasks[t].status = "pending" }

\* SELECT id, script, url ... WHERE status='pending' ORDER BY added_time ASC:
\* the orders the statement may return (rows with equal added_time come in
\* any order).
PendingOrders ==
    { s \in [1..Cardinality(PendingIds) -> PendingIds] :
        /\ \A i, j \in DOMAIN s : i # j => s[i] # s[j]
        /\ \A i, j \in DOMAIN s :
             i < j => tasks[s[i]].added_time <= tasks[s[j]].added_time }

\* ------------------------------------------------------------------- Init
\* A fresh data directory: an empty table, the default settings written to
\* settings.json, the scheduler started and no request in flight.
Init ==
    /\ tasks = << >>
    /\ settings = DEFAULT_CONCURRENCY
    /\ settings_file = DEFAULT_CONCURRENCY
    /\ disp = [pc |-> "idle", maxc |-> 0, active_scripts |-> {}]
    /\ workers = << >>
    /\ rq = [t \in Ids |-> 0]
    /\ active_count = 0
    /\ calls = 0
    /\ resp = NoResp
    /\ issued = << >>
    /\ sc = NoSetters
    /\ q = NoQuery
    /\ checkpoints = 0

\* ---------------------------------------------------------- process_queue
\* A thread started for one pending row: run_task(tid, script, url) before
\* its first statement.
NewWorker(tid) ==
    [tid |-> tid, script |-> tasks[tid].script, url |-> tasks[tid].url,
     pc |-> "mark", marked |-> FALSE, log_lines |-> << >>, line_count |-> 0,
     connection |-> FALSE]

\* The loop with its slot test off by one (started > slots).
RECURSIVE ScanPendingOffByOne(_, _, _, _, _)
ScanPendingOffByOne(rows, i, started, active, slots) ==
    IF i > Len(rows) THEN << >>
    ELSE IF started > slots THEN << >>
    ELSE IF tasks[rows[i]].script \in active
         THEN ScanPendingOffByOne(rows, i + 1, started, active, slots)
         ELSE << rows[i] >> \o
              ScanPendingOffByOne(rows, i + 1, started + 1,
                                  active \cup {tasks[rows[i]].script}, slots)

\* The loop without active_scripts.add(script).
RECURSIVE ScanPendingNoClaim(_, _, _, _, _)
ScanPendingNoClaim(rows, i, started, active, slots) ==
    IF i > Len(rows) THEN << >>
    ELSE IF started >= slots THEN << >>
    ELSE IF tasks[rows[i]].script \in active
         THEN ScanPendingNoClaim(rows, i + 1, started, active, slots)
         ELSE << rows[i] >> \o
              ScanPendingNoClaim(rows, i + 1, started + 1, active, slots)

\* The loop over pending_rows (app.py:155-167): the rows it starts a thread
\* for, in order.
RECURSIVE ScanPending(_, _, _, _, _)
ScanPending(rows, i, started, active, slots) ==
    IF i > Len(rows) THEN << >>
    ELSE IF started >= slots THEN << >>
    ELSE IF tasks[rows[i]].script \in active
         THEN ScanPending(rows, i + 1, started, active, slots)
         ELSE << rows[i] >> \o
              ScanPending(rows, i + 1, started + 1,
                          active \cup {tasks[rows[i]].script}, slots)

\* The dispatcher between two ticks: process_queue keeps nothing from one
\* call to the next.
Idle == [pc |-> "idle", maxc |-> 0, active_scripts |-> {}]

\* The except clause re-raising instead of returning: the job is gone.
ProcessQueueExceptReraise == [pc |-> "raised", maxc |-> 0, active_scripts |-> {}]

\* The except clause of process_queue (app.py:169-170): the error is
\* printed and the call returns.
ProcessQueueExcept == Idle

\* Lines 133-145 with the SELECT coming to r: read the concurrency and the
\* active scripts; return when no slot is free.  A raising SELECT ends the
\* tick in the except clause.
ProcessQueueReadOn(r) ==
    /\ disp.pc = "idle"
    /\ disp' = IF r # "ok" THEN ProcessQueueExcept
               ELSE IF settings - Cardinality(DistinctActiveScripts) > 0
                    THEN [pc |-> "scan", maxc |-> settings,
                          active_scripts |-> DistinctActiveScripts]
                    ELSE Idle
    /\ resp' = NoResp
    /\ UNCHANGED << tasks, settings, settings_file, workers, rq,
                    active_count, calls >>
    /\ checkpoints' = 0
    /\ UNCHANGED aside

ProcessQueueRead == \E r \in DbResults : ProcessQueueReadOn(r)

\* The rows the loop of a tick takes from the pending rows it read.
Taken(rows) ==
    ScanPending(rows, 1, 0, disp.active_scripts,
                disp.maxc - Cardinality(disp.active_scripts))

\* Lines 147-167 with the SELECT coming to r and returning rows: read the
\* pending rows, oldest first, and start a thread for each row the loop
\* takes.  A raising SELECT ends the tick in the except clause.
LaunchOn(cap, r, rows) ==
    /\ disp.pc = "scan"
    /\ LET take == IF r = "ok" THEN Taken(rows) ELSE << >>
       IN  /\ Len(workers) + Len(take) <= cap
           /\ workers' = workers \o [k \in DOMAIN take |-> NewWorker(take[k])]
    /\ disp' = IF r = "ok" THEN Idle ELSE ProcessQueueExcept
    /\ resp' = NoResp
    /\ UNCHANGED << tasks, settings, settings_file, rq, active_count,
                    calls >>
    /\ checkpoints' = 0
    /\ UNCHANGED aside

Launch(cap) ==
    \E r \in DbResults, rows \in PendingOrders : LaunchOn(cap, r, rows)

\* Lines 161-165 with Thread.start raising ("can't start new thread") for
\* the row after the first n the loop takes: the n threads run, the loop is
\* left and the tick ends in the except clause.
LaunchRaiseOn(cap, rows, n) ==
    /\ disp.pc = "scan"
    /\ n < Len(Taken(rows))
    /\ Len(workers) + n <= cap
    /\ workers' = workers \o [k \in 1..n |-> NewWorker(Taken(rows)[k])]
    /\ disp' = ProcessQueueExcept
    /\ resp' = NoResp
    /\ UNCHANGED << tasks, settings, settings_file, rq, active_count,
                    calls >>
    /\ checkpoints' = 0
    /\ UNCHANGED aside

LaunchRaise(cap) ==
    \E rows \in PendingOrders :
        \E n \in 0..Len(rows) : LaunchRaiseOn(cap, rows, n)

ProcessQueueLaunch == Launch(MaxWorkers)

ProcessQueueLaunchRaise == LaunchRaise(MaxWorkers)

\* --------------------------------------------------------------- run_task
\* The thread's locals are gone once it has ended; its thread-local
\* connection is what the thread left of it.
Ended(w) ==
    [tid |-> 0, script |-> "", url |-> "", pc |-> "done", marked |-> FALSE,
     log_lines |-> << >>, line_count |-> 0, connection |-> w.connection]

\* get_db_connection (app.py:29-44) inside a statement that came to r: the
\* thread has its connection once sqlite3.connect has returned.  A
\* statement that raised did so in sqlite3.connect, with no connection
\* kept, or later, with the connection kept.
Connections(w, r) ==
    IF w.connection \/ r = "ok" THEN {TRUE} ELSE BOOLEAN

\* close_db_connection leaving the connection open.
close_db_connectionKeeps(w) == w

\* close_db_connection (app.py:46-50).
close_db_connection(w) == [w EXCEPT !.connection = FALSE]

\* os.makedirs (app.py:175) raises, before the try statement: the thread
\* ends with the exception, past the except and the finally clause, having
\* made no statement.
RunTaskMakedirsRaise(i) ==
    /\ workers[i].pc = "mark"
    /\ workers' = [workers EXCEPT ![i] = Ended(workers[i])]
    /\ resp' = NoResp
    /\ UNCHANGED << tasks, settings, settings_file, disp, rq,
                    active_count, calls >>
    /\ checkpoints' = 0
    /\ UNCHANGED aside

\* Lines 178-192: UPDATE status='active', start_time; then Popen.  Either
\* may raise into the except clause.
RunTaskMark(i) ==
    /\ workers[i].pc = "mark"
    /\ \E r \in DbResults, popen \in {"ok", "raise"} :
         LET w == workers[i] IN
         IF r = "ok"
         THEN /\ tasks' = UpdateRow(w.tid,
                    [tasks[w.tid] EXCEPT !.status = "active",
                                         !.start_time = Stamp])
              /\ workers' = [workers EXCEPT ![i] =
                    [w EXCEPT !.marked = TRUE, !.connection = TRUE,
                              !.pc = IF popen = "ok" THEN "stream" ELSE "except"]]
         ELSE /\ popen = "ok"
              /\ tasks' = tasks
              /\ \E c \in Connections(w, r) :
                    workers' = [workers EXCEPT ![i] =
                        [w EXCEPT !.pc = "except", !.connection = c]]
    /\ resp' = NoResp
    /\ UNCHANGED << settings, settings_file, disp, rq, active_count, calls >>
    /\ checkpoints' = 0
    /\ UNCHANGED aside

\* The test asking for more lines than the threshold.
FlushDueAbove(count, elapsed) == count > FlushLines \/ elapsed

\* line_count >= 50 or (current_time - last_update) >= 10 (app.py:205);
\* elapsed says that 10 seconds have passed since last_update.
FlushDue(count, elapsed) == count >= FlushLines \/ elapsed

\* Lines 199-212 for one line read from proc.stdout, of a process that
\* writes at most maxl lines, with the time test coming to elapsed and
\* the log update, if one is made, to r: the whole log is written when 50
\* lines or 10 seconds have gathered since the last write, and a raising
\* write is caught and leaves the counter as it is.
RunTaskLineOn(i, maxl, r, elapsed) ==
    /\ workers[i].pc = "stream"
    /\ Len(workers[i].log_lines) < maxl
    /\ LET w     == workers[i]
           lines == Append(w.log_lines, Len(w.log_lines) + 1)
           count == w.line_count + 1
       IN  IF FlushDue(count, elapsed)
           THEN IF r = "ok"
                THEN /\ tasks' = UpdateRow(w.tid,
                           [tasks[w.tid] EXCEPT !.log = Some(lines)])
                     /\ workers' = [workers EXCEPT ![i] =
                           [w EXCEPT !.log_lines = lines, !.line_count = 0]]
                ELSE /\ tasks' = tasks
                     /\ workers' = [workers EXCEPT ![i] =
                           [w EXCEPT !.log_lines = lines, !.line_count = count]]
           ELSE /\ r = "ok"
                /\ tasks' = tasks
                /\ workers' = [workers EXCEPT ![i] =
                      [w EXCEPT !.log_lines = lines, !.line_count = count]]
    /\ resp' = NoResp
    /\ UNCHANGED << settings, settings_file, disp, rq, active_count, calls >>
    /\ checkpoints' = 0
    /\ UNCHANGED aside

\* Reading proc.stdout raises (text=True decodes the output): the except
\* clause is next.
RunTaskStreamError(i) ==
    /\ workers[i].pc = "stream"
    /\ workers' = [workers EXCEPT ![i] = [@ EXCEPT !.pc = "except"]]
    /\ resp' = NoResp
    /\ UNCHANGED << tasks, settings, settings_file, disp, rq,
                    active_count, calls >>
    /\ checkpoints' = 0
    /\ UNCHANGED aside

StreamLine(i, maxl) ==
    \E r \in DbResults, elapsed \in BOOLEAN : RunTaskLineOn(i, maxl, r, elapsed)

RunTaskLine(i) == StreamLine(i, MaxLines)

\* A final update writing only the lines gathered since the last write.
final_logSinceFlush(w) ==
    SubSeq(w.log_lines, Len(w.log_lines) - w.line_count + 1, Len(w.log_lines))

\* final_log = ''.join(log_lines) (app.py:216): every line read.
final_log(w) == w.log_lines

\* Lines 214-219 with the update coming to r: the output has ended; the
\* final log update, whose exception is caught.
RunTaskFinalLogOn(i, r) ==
    /\ workers[i].pc = "stream"
    /\ LET w == workers[i] IN
       tasks' = IF r = "ok"
                THEN UpdateRow(w.tid,
                       [tasks[w.tid] EXCEPT !.log = Some(final_log(w))])
                ELSE tasks
    /\ workers' = [workers EXCEPT ![i] = [@ EXCEPT !.pc = "status"]]
    /\ resp' = NoResp
    /\ UNCHANGED << settings, settings_file, disp, rq, active_count, calls >>
    /\ checkpoints' = 0
    /\ UNCHANGED aside

RunTaskFinalLog(i) == \E r \in DbResults : RunTaskFinalLogOn(i, r)

\* The test taking every code that is not positive for success.
StatusOfCodeNotPositive(code) == IF code <= 0 THEN "completed" ELSE "failed"

\* status = 'completed' if code == 0 else 'failed' (app.py:222).
StatusOfCode(code) == IF code = 0 THEN "completed" ELSE "failed"

\* finally (app.py:240-243).
Finally(i, w) ==
    /\ workers' = [workers EXCEPT ![i] = Ended(close_db_connection(w))]
    /\ active_count' = active_count - 1

\* The exit codes proc.wait() gives: 0, a failure, the negative number of
\* a signal.
ExitCodes == {0 - 9, 0, 1}

\* Lines 221-229 with the exit code and the final status update coming to
\* r: a raising update goes to the except clause.
RunTaskStatusOn(i, r, code) ==
    /\ workers[i].pc = "status"
    /\ LET w == workers[i] IN
       IF r = "ok"
       THEN /\ tasks' = UpdateRow(w.tid,
                  [tasks[w.tid] EXCEPT !.status = StatusOfCode(code),
                                       !.end_time = Stamp])
            /\ Finally(i, w)
       ELSE /\ tasks' = tasks
            /\ workers' = [workers EXCEPT ![i] = [w EXCEPT !.pc = "except"]]
            /\ active_count' = active_count
    /\ resp' = NoResp
    /\ UNCHANGED << settings, settings_file, disp, rq, calls >>
    /\ checkpoints' = 0
    /\ UNCHANGED aside

RunTaskStatus(i) ==
    \/ \E code \in ExitCodes : RunTaskStatusOn(i, "ok", code)
    \/ \E r \in DbResults \ {"ok"} : RunTaskStatusOn(i, r, 0)

\* Lines 231-243: the except clause writes 'failed'; its own exception is
\* caught; finally ends the thread.
RunTaskExcept(i) ==
    /\ workers[i].pc = "except"
    /\ \E r \in DbResults :
         /\ LET w == workers[i] IN
            tasks' = IF r = "ok"
                     THEN UpdateRow(w.tid,
                            [tasks[w.tid] EXCEPT !.status = "failed",
                                                 !.end_time = Stamp])
                     ELSE tasks
         /\ \E c \in Connections(workers[i], r) :
               Finally(i, [workers[i] EXCEPT !.connection = c])
    /\ resp' = NoResp
    /\ UNCHANGED << settings, settings_file, disp, rq, calls >>
    /\ checkpoints' = 0
    /\ UNCHANGED aside

\* ----------------------------------------------------------------- facade
\* Flask hands a request to its handler.
Accept ==
    /\ calls < MaxCalls
    /\ calls' = calls + 1

\* A pending row as add() inserts it.
PendingRow(url, at) ==
    [script |-> ScriptOfUrl[url], url |-> url, status |-> "pending",
     added_time |-> at, start_time |-> Null, end_time |-> Null, log |-> Null]

\* add (app.py:285-303): the script is the site of the url; INSERT a
\* pending row stamped with the current time t, which is not before the
\* time of any row in the table.
Add(url, at) ==
    /\ Accept
    /\ NextRowId <= MaxId
    /\ \A u \in TaskIds : tasks[u].added_time <= at
    /\ \E r \in DbResults :
         IF r = "ok"
         THEN /\ tasks' = [t \in TaskIds \cup {NextRowId} |->
                    IF t \in TaskIds THEN tasks[t]
                    ELSE PendingRow(url, at)]
              /\ issued' = Append(issued, NextRowId)
              /\ resp' = 200
         ELSE /\ tasks' = tasks
              /\ issued' = issued
              /\ resp' = 500
    /\ UNCHANGED << settings, settings_file, disp, workers, rq,
                    active_count >>
    /\ UNCHANGED << sc, q >>
    /\ checkpoints' = 0

\* The rows a listing that leaves out the tasks no worker has started yet
\* would select.
ListedIdsStarted == { t \in TaskIds : tasks[t].start_time # Null }

\* The rows SELECT ... FROM tasks of jobs() selects (app.py:262-263): all.
ListedIds == TaskIds

\* ORDER BY id DESC.
RECURSIVE Descending(_)
Descending(S) ==
    IF S = {} THEN << >>
    ELSE << MaxOf(S) >> \o Descending(S \ {MaxOf(S)})

\* One entry of the 'jobs' list (app.py:269-277).
JobOf(t) ==
    [id |-> t, script |-> tasks[t].script, url |-> tasks[t].url,
     status |-> tasks[t].status, added |-> tasks[t].added_time,
     start |-> tasks[t].start_time, end |-> tasks[t].end_time]

\* The 'jobs' list a call of jobs() answers with in this state.
JobsBody ==
    [k \in 1..Cardinality(ListedIds) |-> JobOf(Descending(ListedIds)[k])]

\* jobs (app.py:258-283): one SELECT; the list, or 500 when it raises.
Jobs ==
    /\ Accept
    /\ \E r \in DbResults : resp' = IF r = "ok" THEN 200 ELSE 500
    /\ UNCHANGED << tasks, settings, settings_file, disp, workers, rq,
                    active_count >>
    /\ checkpoints' = 0
    /\ UNCHANGED aside

\* Requeue requests between their SELECT and their UPDATE.
RECURSIVE SumTo(_, _)
SumTo(f, n) == IF n = 0 THEN 0 ELSE f[n] + SumTo(f, n - 1)
InFlight == SumTo(rq, MaxId)

\* The test rejecting only a finished task.
NotAFailedTaskOnlyCompleted(tid) ==
    tid \notin TaskIds \/ tasks[tid].status = "completed"

\* The test of requeue on the rows of its SELECT (app.py:309).
NotAFailedTask(tid) ==
    tid \notin TaskIds \/ tasks[tid].status # "failed"

\* requeue, lines 308-310: SELECT status; answer 400 unless it is 'failed'.
\* A request that passes is counted in rq until its UPDATE runs; at most
\* cap requests are between the two statements at a time.
RequeueSelectUpTo(cap, tid) ==
    /\ Accept
    /\ \E r \in DbResults :
         IF r # "ok"
         THEN /\ rq' = rq
              /\ resp' = 500
         ELSE IF NotAFailedTask(tid)
         THEN /\ rq' = rq
              /\ resp' = 400
         ELSE /\ InFlight < cap
              /\ rq' = [rq EXCEPT ![tid] = @ + 1]
              /\ resp' = 0
    /\ UNCHANGED << tasks, settings, settings_file, disp, workers,
                    active_count >>
    /\ checkpoints' = 0
    /\ UNCHANGED aside

RequeueSelect(tid) == RequeueSelectUpTo(MaxRequeue, tid)

\* The UPDATE without end_time=NULL.
RequeuedKeepsEnd(row) ==
    [row EXCEPT !.status = "pending", !.log = Null, !.start_time = Null]

\* The row after UPDATE tasks SET status='pending', log=NULL,
\* start_time=NULL, end_time=NULL (app.py:313).
Requeued(row) ==
    [row EXCEPT !.status = "pending", !.log = Null,
                !.start_time = Null, !.end_time = Null]

\* requeue, lines 312-316: the UPDATE and the answer.
RequeueUpdate(tid) ==
    /\ rq[tid] > 0
    /\ rq' = [rq EXCEPT ![tid] = @ - 1]
    /\ \E r \in DbResults :
         IF r = "ok"
         THEN /\ tasks' = UpdateRow(tid, Requeued(tasks[tid]))
              /\ resp' = 200
         ELSE /\ tasks' = tasks
              /\ resp' = 500
    /\ UNCHANGED << settings, settings_file, disp, workers,
                    active_count, calls >>
    /\ checkpoints' = 0
    /\ UNCHANGED aside

\* A DELETE that takes the failed tasks along with the completed ones.
KeptByClearCompletedUnfinished ==
    { t \in TaskIds : tasks[t].status \in {"pending", "active"} }

\* The rows DELETE FROM tasks WHERE status='completed' keeps.
KeptByClearCompleted == { t \in TaskIds : tasks[t].status # "completed" }

\* The handler going on to its answer without the call.
checkpoint_databaseSkipped(c) == checkpoints' = 0

\* checkpoint_database without its except clause: an exception of connect
\* or of the PRAGMA goes up to the caller.
CheckpointResultsReraised == {"done", "raise"}

\* What a call of checkpoint_database comes to for its caller
\* (app.py:54-60): it returns after the checkpoint, or it returns after an
\* exception of sqlite3.connect or of the PRAGMA that it has caught and
\* printed.
CheckpointResults == {"done", "caught"}

\* checkpoint_database (app.py:52-60) coming to c: a connection of its own
\* runs PRAGMA wal_checkpoint(TRUNCATE), which leaves the table as it is.
checkpoint_database(c) == checkpoints' = IF c = "done" THEN 1 ELSE 2

\* clear_completed (app.py:321-330): the DELETE, then checkpoint_database;
\* a raising DELETE goes to the except clause past the call, and so would
\* an exception of the call, after the DELETE.
ClearCompleted ==
    /\ Accept
    /\ \E r \in DbResults :
         IF r = "ok"
         THEN /\ tasks' = [t \in KeptByClearCompleted |-> tasks[t]]
              /\ \E c \in CheckpointResults :
                    /\ checkpoint_database(c)
                    /\ resp' = IF c = "raise" THEN 500 ELSE 204
         ELSE /\ tasks' = tasks
              /\ checkpoints' = 0
              /\ resp' = 500
    /\ UNCHANGED << settings, settings_file, disp, workers, rq,
                    active_count >>
    /\ UNCHANGED aside

\* clear_all (app.py:332-341): the DELETE, then checkpoint_database.
ClearAll ==
    /\ Accept
    /\ \E r \in DbResults :
         IF r = "ok"
         THEN /\ tasks' = << >>
              /\ \E c \in CheckpointResults :
                    /\ checkpoint_database(c)
                    /\ resp' = IF c = "raise" THEN 500 ELSE 204
         ELSE /\ tasks' = tasks
              /\ checkpoints' = 0
              /\ resp' = 500
    /\ UNCHANGED << settings, settings_file, disp, workers, rq,
                    active_count >>
    /\ UNCHANGED aside

\* The interval job of the scheduler (app.py:248): checkpoint_database
\* every 15 minutes.  The job keeps nothing from one run to the next.
CheckpointJob ==
    /\ \E c \in CheckpointResults : checkpoint_database(c)
    /\ resp' = NoResp
    /\ UNCHANGED << tasks, settings, settings_file, disp, workers, rq,
                    active_count, calls >>
    /\ UNCHANGED aside

\* manual_checkpoint (app.py:380-386): checkpoint_database and the answer,
\* 500 from the except clause for an exception of the call.
ManualCheckpoint ==
    /\ Accept
    /\ \E c \in CheckpointResults :
          /\ checkpoint_database(c)
          /\ resp' = IF c = "raise" THEN 500 ELSE 200
    /\ UNCHANGED << tasks, settings, settings_file, disp, workers, rq,
                    active_count >>
    /\ UNCHANGED aside

\* set_concurrency (app.py:343-352): int() of the posted value raises for
\* one that is no number (Null here); the value is stored in memory, then
\* save_settings writes the file and may raise.
SetConcurrency(posted) ==
    /\ Accept
    /\ \E save \in {"ok", "raise"} :
         IF posted = Null
         THEN /\ save = "ok"
              /\ UNCHANGED << settings, settings_file >>
              /\ resp' = 500
         ELSE /\ settings' = posted[1]
              /\ settings_file' = IF save = "ok" THEN posted[1] ELSE settings_file
              /\ resp' = IF save = "ok" THEN 204 ELSE 500
    /\ UNCHANGED << tasks, disp, workers, rq, active_count >>
    /\ checkpoints' = 0
    /\ UNCHANGED aside

PostedValues == {Null} \cup { Some(v) : v \in ConcValues }

\* set_concurrency in request threads of their own (app.py:343-352; the
\* handler takes no lock).  A request that has returned keeps its value and
\* its answer in sc.
Returned(val, code) == [pc |-> "returned", val |-> val, buf |-> 0, code |-> code]

\* Lines 346-347: int() of the posted value, which raises for one that is
\* no number, and the assignment to settings['concurrency'].
SetConcurrencyAssign(posted) ==
    /\ Accept
    /\ Len(sc) < MaxSetters
    /\ IF posted = Null
       THEN /\ sc' = Append(sc, Returned(0, 500))
            /\ settings' = settings
            /\ resp' = 500
       ELSE /\ sc' = Append(sc, [pc |-> "dump", val |-> posted[1],
                                  buf |-> 0, code |-> 0])
            /\ settings' = posted[1]
            /\ resp' = NoResp
    /\ UNCHANGED << tasks, settings_file, disp, workers, rq, active_count,
                    issued, q >>
    /\ checkpoints' = 0

\* What json.dump(settings, f) serialises (app.py:100): the dictionary as
\* it is when the call runs.
Dumped(k) == settings

\* save_settings, lines 99-100: open(SETTINGS_PATH, 'w'), which may raise,
\* and json.dump into the file object, whose buffer takes the text.
SaveSettingsDump(k) ==
    /\ sc[k].pc = "dump"
    /\ \E open \in {"ok", "raise"} :
         IF open = "ok"
         THEN /\ sc' = [sc EXCEPT ![k] = [@ EXCEPT !.pc = "close",
                                                   !.buf = Dumped(k)]]
              /\ resp' = NoResp
         ELSE /\ sc' = [sc EXCEPT ![k] = Returned(sc[k].val, 500)]
              /\ resp' = 500
    /\ UNCHANGED << tasks, settings, settings_file, disp, workers, rq,
                    active_count, calls, issued, q >>
    /\ checkpoints' = 0

\* The with block is left: the file is closed, which writes the buffered
\* text from the start of the file, and the handler answers 204.
SaveSettingsClose(k) ==
    /\ sc[k].pc = "close"
    /\ settings_file' = sc[k].buf
    /\ sc' = [sc EXCEPT ![k] = Returned(sc[k].val, 204)]
    /\ resp' = 204
    /\ UNCHANGED << tasks, settings, disp, workers, rq, active_count,
                    calls, issued, q >>
    /\ checkpoints' = 0

\* ------------------------------------------------------------------- Next
\* One step of some worker thread, one request of some caller.
RunTaskMarkStep == \E i \in DOMAIN workers : RunTaskMark(i)
RunTaskLineStep == \E i \in DOMAIN workers : RunTaskLine(i)
RunTaskStreamErrorStep == \E i \in DOMAIN workers : RunTaskStreamError(i)
RunTaskFinalLogStep == \E i \in DOMAIN workers : RunTaskFinalLog(i)
RunTaskStatusStep == \E i \in DOMAIN workers : RunTaskStatus(i)
RunTaskExceptStep == \E i \in DOMAIN workers : RunTaskExcept(i)
AddStep == \E u \in Urls, at \in Times : Add(u, at)
RequeueSelectStep == \E t \in Ids : RequeueSelect(t)
RequeueUpdateStep == \E t \in Ids : RequeueUpdate(t)
SetConcurrencyStep == \E v \in PostedValues : SetConcurrency(v)

Next ==
    \/ ProcessQueueRead
    \/ ProcessQueueLaunch
    \/ ProcessQueueLaunchRaise
    \/ RunTaskMarkStep
    \/ RunTaskLineStep
    \/ RunTaskStreamErrorStep
    \/ RunTaskFinalLogStep
    \/ RunTaskStatusStep
    \/ RunTaskExceptStep
    \/ AddStep
    \/ RequeueSelectStep
    \/ RequeueUpdateStep
    \/ ClearCompleted
    \/ ClearAll
    \/ SetConcurrencyStep

Spec == Init /\ [][Next]_vars

\* ------------------------------------------------------------- scenario A
\* Scenario A: concurrency 2 and four pending tasks A(x), B(x), C(y), D(z),
\* added in this order, as ids 1 to 4.
InitA ==
    /\ tasks = << PendingRow("http://x.com/1", 1), PendingRow("http://x.com/1", 2),
                  PendingRow("http://y.com/1", 3), PendingRow("http://z.com/1", 4) >>
    /\ settings = 2
    /\ settings_file = 2
    /\ disp = [pc |-> "idle", maxc |-> 0, active_scripts |-> {}]
    /\ workers = << >>
    /\ rq = [t \in Ids |-> 0]
    /\ active_count = 0
    /\ calls = 0
    /\ resp = NoResp
    /\ issued = << 1, 2, 3, 4 >>
    /\ sc = NoSetters
    /\ q = NoQuery
    /\ checkpoints = 0

ProcessQueueLaunchA == Launch(MaxWorkersA)

\* The scheduler and the workers run; no request comes in.
NextA ==
    \/ ProcessQueueRead
    \/ ProcessQueueLaunchA
    \/ RunTaskMarkStep
    \/ RunTaskLineStep
    \/ RunTaskStreamErrorStep
    \/ RunTaskFinalLogStep
    \/ RunTaskStatusStep
    \/ RunTaskExceptStep

SpecA == InitA /\ [][NextA]_vars

\* ------------------------------------------------------------- scenario B
\* A row a worker has marked active.
ActiveRow(url, at) ==
    [PendingRow(url, at) EXCEPT !.status = "active", !.start_time = Stamp]

\* A worker reading the output of its process.
StreamingWorker(tid, url) ==
    [tid |-> tid, script |-> ScriptOfUrl[url], url |-> url, pc |-> "stream",
     marked |-> TRUE, log_lines |-> << >>, line_count |-> 0,
     connection |-> TRUE]

\* Scenario B: concurrency 3, two tasks active with their workers running,
\* two more tasks pending.
InitB ==
    /\ tasks = << ActiveRow("http://x.com/1", 1), ActiveRow("http://y.com/1", 2),
                  PendingRow("http://x.com/1", 3), PendingRow("http://y.com/1", 4) >>
    /\ settings = 3
    /\ settings_file = 3
    /\ disp = [pc |-> "idle", maxc |-> 0, active_scripts |-> {}]
    /\ workers = << StreamingWorker(1, "http://x.com/1"),
                    StreamingWorker(2, "http://y.com/1") >>
    /\ rq = [t \in Ids |-> 0]
    /\ active_count = 0
    /\ calls = 0
    /\ resp = NoResp
    /\ issued = << 1, 2, 3, 4 >>
    /\ sc = NoSetters
    /\ q = NoQuery
    /\ checkpoints = 0

ProcessQueueLaunchB == Launch(MaxWorkersB)

\* The concurrency is lowered to 1.
SetConcurrencyOne == SetConcurrency(Some(1))

NextB ==
    \/ SetConcurrencyOne
    \/ ProcessQueueRead
    \/ ProcessQueueLaunchB
    \/ RunTaskMarkStep
    \/ RunTaskLineStep
    \/ RunTaskStreamErrorStep
    \/ RunTaskFinalLogStep
    \/ RunTaskStatusStep
    \/ RunTaskExceptStep

SpecB == InitB /\ [][NextB]_vars

\* ------------------------------------------------- enqueue and list
\* Callers enqueue and list while the scheduler and the workers run; no
\* row is deleted or requeued.
NextV ==
    \/ AddStep
    \/ Jobs
    \/ ProcessQueueRead
    \/ ProcessQueueLaunch
    \/ RunTaskMarkStep
    \/ RunTaskLineStep
    \/ RunTaskStreamErrorStep
    \/ RunTaskFinalLogStep
    \/ RunTaskStatusStep
    \/ RunTaskExceptStep

SpecV == Init /\ [][NextV]_vars

\* ------------------------------------------ set_concurrency side by side
SetConcurrencyAssignStep == \E v \in PostedValues : SetConcurrencyAssign(v)
SaveSettingsDumpStep == \E k \in DOMAIN sc : SaveSettingsDump(k)
SaveSettingsCloseStep == \E k \in DOMAIN sc : SaveSettingsClose(k)

\* Requests to set_concurrency, each in its thread, while the scheduler
\* reads the setting.
NextS ==
    \/ SetConcurrencyAssignStep
    \/ SaveSettingsDumpStep
    \/ SaveSettingsCloseStep
    \/ ProcessQueueRead
    \/ ProcessQueueLaunch

SpecS == Init /\ [][NextS]_vars

\* ------------------------------------------------ one execute_db_query
\* A single call of execute_db_query under every sequence of outcomes of
\* its attempts.
InitQ ==
    /\ tasks = << >>
    /\ settings = DEFAULT_CONCURRENCY
    /\ settings_file = DEFAULT_CONCURRENCY
    /\ disp = Idle
    /\ workers = << >>
    /\ rq = [t \in Ids |-> 0]
    /\ active_count = 0
    /\ calls = 0
    /\ resp = NoResp
    /\ issued = << >>
    /\ sc = NoSetters
    /\ q \in { QueryOn(att) : att \in AttemptSeqs }
    /\ checkpoints = 0

NextQ == ExecuteDbQuery

SpecQ == InitQ /\ [][NextQ]_vars

\* ------------------------------------------------------- failing ticks
\* Two pending tasks of different scripts, enqueued before the first tick,
\* and the default concurrency: a tick that reads both and starts every
\* thread starts one for task 1 and one for task 2.
InitT ==
    /\ tasks = << PendingRow("http://x.com/1", 1), PendingRow("http://y.com/1", 2) >>
    /\ settings = DEFAULT_CONCURRENCY
    /\ settings_file = DEFAULT_CONCURRENCY
    /\ disp = Idle
    /\ workers = << >>
    /\ rq = [t \in Ids |-> 0]
    /\ active_count = 0
    /\ calls = 0
    /\ resp = NoResp
    /\ issued = << 1, 2 >>
    /\ sc = NoSetters
    /\ q = NoQuery
    /\ checkpoints = 0

ProcessQueueLaunchT == Launch(MaxWorkersT)

ProcessQueueLaunchRaiseT == LaunchRaise(MaxWorkersT)

\* The scheduler and the workers run; no request comes in.
NextT ==
    \/ ProcessQueueRead
    \/ ProcessQueueLaunchT
    \/ ProcessQueueLaunchRaiseT
    \/ RunTaskMarkStep
    \/ RunTaskLineStep
    \/ RunTaskStreamErrorStep
    \/ RunTaskFinalLogStep
    \/ RunTaskStatusStep
    \/ RunTaskExceptStep

SpecT == InitT /\ [][NextT]_vars

\* -------------------------------------------------------- bulk deletes
ProcessQueueLaunchC == Launch(MaxWorkersC)

\* Two pending tasks; the scheduler runs the ticks and the checkpoint job,
\* the workers run, and callers clear the table and ask for checkpoints.
NextC ==
    \/ ClearCompleted
    \/ ClearAll
    \/ CheckpointJob
    \/ ManualCheckpoint
    \/ ProcessQueueRead
    \/ ProcessQueueLaunchC
    \/ RunTaskMarkStep
    \/ RunTaskLineStep
    \/ RunTaskStreamErrorStep
    \/ RunTaskFinalLogStep
    \/ RunTaskStatusStep
    \/ RunTaskExceptStep

SpecC == InitT /\ [][NextC]_vars

\* ------------------------------------------------- the workers' exits
RunTaskMakedirsRaiseStep == \E i \in DOMAIN workers : RunTaskMakedirsRaise(i)

ProcessQueueLaunchK == Launch(MaxWorkersK)

\* Two pending tasks, the scheduler and the workers, each of which may
\* leave run_task by any of its routes.
NextK ==
    \/ ProcessQueueRead
    \/ ProcessQueueLaunchK
    \/ RunTaskMakedirsRaiseStep
    \/ RunTaskMarkStep
    \/ RunTaskLineStep
    \/ RunTaskStreamErrorStep
    \/ RunTaskFinalLogStep
    \/ RunTaskStatusStep
    \/ RunTaskExceptStep

SpecK == InitT /\ [][NextK]_vars

\* ------------------------------------------------------- a single tick
\* The tables a tick may find when the program starts on an existing
\* database: rows 1..MaxRowsG, each pending or active, of any site, with
\* added_time not decreasing with the id.  (No thread survives a restart,
\* so no worker runs for an active row.)
TablesG ==
    { tb \in [1..MaxRowsG ->
                { PendingRow(u, at) : u \in DOMAIN ScriptOfUrl, at \in Times }
                \cup { ActiveRow(u, at) : u \in DOMAIN ScriptOfUrl, at \in Times }] :
        \A a, b \in 1..MaxRowsG : a < b => tb[a].added_time <= tb[b].added_time }

\* The concurrency settings.json may hold.
SettingsG == 0..DEFAULT_CONCURRENCY

InitG ==
    /\ tasks \in TablesG
    /\ settings \in SettingsG
    /\ settings_file = settings
    /\ disp = Idle
    /\ workers = << >>
    /\ rq = [t \in Ids |-> 0]
    /\ active_count = 0
    /\ calls = 0
    /\ resp = NoResp
    /\ issued = << >>
    /\ sc = NoSetters
    /\ q = NoQuery
    /\ checkpoints = 0

ProcessQueueLaunchG == Launch(MaxWorkersG)

ProcessQueueLaunchRaiseG == LaunchRaise(MaxWorkersG)

\* Ticks alone: no thread started gets to its first statement.
NextG ==
    \/ ProcessQueueRead
    \/ ProcessQueueLaunchG
    \/ ProcessQueueLaunchRaiseG

SpecG == InitG /\ [][NextG]_vars

\* ---------------------------------------------------- a waiting task
\* Two pending tasks of one site, task 1 enqueued before task 2, under the
\* default concurrency.
InitL ==
    /\ tasks = << PendingRow("http://x.com/1", 1), PendingRow("http://x.com/1", 2) >>
    /\ settings = DEFAULT_CONCURRENCY
    /\ settings_file = DEFAULT_CONCURRENCY
    /\ disp = Idle
    /\ workers = << >>
    /\ rq = [t \in Ids |-> 0]
    /\ active_count = 0
    /\ calls = 0
    /\ resp = NoResp
    /\ issued = << 1, 2 >>
    /\ sc = NoSetters
    /\ q = NoQuery
    /\ checkpoints = 0

ProcessQueueLaunchL == Launch(MaxWorkersL)

\* The scheduler and the workers run, and callers requeue.
NextL ==
    \/ ProcessQueueRead
    \/ ProcessQueueLaunchL
    \/ RunTaskMarkStep
    \/ RunTaskLineStep
    \/ RunTaskStreamErrorStep
    \/ RunTaskFinalLogStep
    \/ RunTaskStatusStep
    \/ RunTaskExceptStep
    \/ RequeueSelectStep
    \/ RequeueUpdateStep

\* The interval job goes on running process_queue (app.py:247), a thread
\* that has been started runs, and a process that has been launched ends
\* its output and exits.
FairL ==
    /\ WF_vars(ProcessQueueRead)
    /\ WF_vars(ProcessQueueLaunchL)
    /\ WF_vars(RunTaskMarkStep)
    /\ WF_vars(RunTaskFinalLogStep)
    /\ WF_vars(RunTaskStatusStep)
    /\ WF_vars(RunTaskExceptStep)

SpecL == InitL /\ [][NextL]_vars /\ FairL

\* ------------------------------------------------- one worker streaming
\* One task, marked active by its worker, whose process has just been
\* launched and has written nothing yet.
InitF ==
    /\ tasks = << ActiveRow("http://x.com/1", 1) >>
    /\ settings = DEFAULT_CONCURRENCY
    /\ settings_file = DEFAULT_CONCURRENCY
    /\ disp = Idle
    /\ workers = << StreamingWorker(1, "http://x.com/1") >>
    /\ rq = [t \in Ids |-> 0]
    /\ active_count = 0
    /\ calls = 0
    /\ resp = NoResp
    /\ issued = << 1 >>
    /\ sc = NoSetters
    /\ q = NoQuery
    /\ checkpoints = 0

RunTaskLineStepF == \E i \in DOMAIN workers : StreamLine(i, MaxLinesF)

\* The worker alone: it reads the lines, writes the log and ends.
NextF ==
    \/ RunTaskLineStepF
    \/ RunTaskStreamErrorStep
    \/ RunTaskFinalLogStep
    \/ RunTaskStatusStep
    \/ RunTaskExceptStep

SpecF == InitF /\ [][NextF]_vars

\* ------------------------------------- a delete under a running worker
ProcessQueueLaunchD == Launch(MaxWorkersD)

\* One task, active, with its worker reading the output of its process;
\* callers clear the table and enqueue while the scheduler and the workers
\* run.  No task is requeued, so a row's start_time is NULL exactly as long
\* as no worker has marked that row active.
NextD ==
    \/ ClearAll
    \/ AddStep
    \/ ProcessQueueRead
    \/ ProcessQueueLaunchD
    \/ RunTaskMarkStep
    \/ RunTaskLineStep
    \/ RunTaskStreamErrorStep
    \/ RunTaskFinalLogStep
    \/ RunTaskStatusStep
    \/ RunTaskExceptStep

SpecD == InitF /\ [][NextD]_vars

\* ------------------------------------------- requeues side by side
\* A row whose process wrote one line and exited with a failure.
FailedRow(url, at) ==
    [ActiveRow(url, at) EXCEPT !.status = "failed", !.end_time = Stamp,
                               !.log = Some(<< 1 >>)]

\* One task that ran and failed; no thread runs.
InitR ==
    /\ tasks = << FailedRow("http://x.com/1", 1) >>
    /\ settings = DEFAULT_CONCURRENCY
    /\ settings_file = DEFAULT_CONCURRENCY
    /\ disp = Idle
    /\ workers = << >>
    /\ rq = [t \in Ids |-> 0]
    /\ active_count = 0
    /\ calls = 0
    /\ resp = NoResp
    /\ issued = << 1 >>
    /\ sc = NoSetters
    /\ q = NoQuery
    /\ checkpoints = 0

RequeueSelectStepR == \E id \in Ids : RequeueSelectUpTo(MaxRequeueR, id)

ProcessQueueLaunchR == Launch(MaxWorkersR)

\* Callers requeue, each request in its thread, while the scheduler and the
\* workers run.
NextR ==
    \/ RequeueSelectStepR
    \/ RequeueUpdateStep
    \/ ProcessQueueRead
    \/ ProcessQueueLaunchR
    \/ RunTaskMarkStep
    \/ RunTaskLineStep
    \/ RunTaskStreamErrorStep
    \/ RunTaskFinalLogStep
    \/ RunTaskStatusStep
    \/ RunTaskExceptStep

SpecR == InitR /\ [][NextR]_vars

\* ------------------------------------------------------------- properties
ActiveIds == { t \in TaskIds : tasks[t].status = "active" }

Min(a, b) == IF a < b THEN a ELSE b

\* C1: in every reachable state at most one task per script has status
\* 'active'.
C1_ActiveScriptExclusivity ==
    \A a, b \in ActiveIds : tasks[a].script = tasks[b].script => a = b

StartedScripts == { workers'[k].script : k \in (DOMAIN workers') \ (DOMAIN workers) }

AllowedTransitions ==
    { << "pending", "active" >>, << "active", "completed" >>,
      << "active", "failed" >>, << "failed", "pending" >> }

\* C3: every change of a task's status is pending->active, active->completed,
\* active->failed or failed->pending.
C3_StrictStateMachine ==
    [][ \A t \in TaskIds \cap DOMAIN tasks' :
          tasks'[t].status # tasks[t].status =>
            << tasks[t].status, tasks'[t].status >> \in AllowedTransitions ]_vars

\* C4: when a worker that raised after marking its task active ends, the
\* task's status is 'failed'.
C4_NoStuckActive ==
    [][ \A i \in DOMAIN workers :
          ( /\ workers[i].pc = "except"
            /\ workers[i].marked
            /\ workers'[i].pc = "done"
            /\ workers[i].tid \in DOMAIN tasks' )
          => tasks'[workers[i].tid].status = "failed" ]_vars

\* C5: of two tasks of one script that were pending together, the one
\* added earlier becomes active first.  (Scenario A starts with every task
\* pending and has no requeue: a task's start_time is set exactly when it
\* has become active.)
C5_FifoWithinScript ==
    \A t1, t2 \in TaskIds :
        ( /\ tasks[t1].script = tasks[t2].script
          /\ tasks[t1].added_time < tasks[t2].added_time
          /\ tasks[t2].start_time # Null )
        => tasks[t1].start_time # Null

\* The text of a log column, NULL read as the empty text.
LogText(log) == IF log = Null THEN << >> ELSE log[1]

\* C6: when a worker whose process output has ended writes the terminal
\* status, the persisted log is every line the process wrote, in order.
C6_LogCompleteness ==
    [][ \A i \in DOMAIN workers :
          ( /\ workers[i].pc = "status"
            /\ workers'[i].pc = "done"
            /\ workers[i].tid \in DOMAIN tasks' )
          => LogText(tasks'[workers[i].tid].log) = workers[i].log_lines ]_vars

\* The ids of the tasks a step starts a thread for.
StartedIds == { workers'[k].tid : k \in (DOMAIN workers') \ (DOMAIN workers) }

\* C7: in scenario A the first tick that starts workers starts exactly those
\* of A and C (ids 1 and 3), and a worker for B (id 2) is started only once
\* A has left the active state.
C7_ScenarioA ==
    [][ /\ (Len(workers) = 0 /\ Len(workers') > 0) =>
              (StartedIds = {1, 3} /\ Len(workers') = 2)
        /\ 2 \in StartedIds => tasks[1].status \in {"completed", "failed"}
      ]_vars

\* C8: in scenario B, lowering the concurrency changes no task and no worker;
\* each of the two running workers ends with its task completed or failed;
\* a tick that read concurrency 1 starts no worker while a task is active,
\* and starts at most one.
C8_ScenarioB ==
    [][ /\ SetConcurrencyOne => (tasks' = tasks /\ workers' = workers)
        /\ \A i \in {1, 2} :
              (workers[i].pc # "done" /\ workers'[i].pc = "done") =>
                  tasks'[i].status \in {"completed", "failed"}
        /\ (disp.maxc = 1 /\ Len(workers') > Len(workers)) =>
              (ActiveIds = {} /\ Len(workers') - Len(workers) = 1)
      ]_vars

\* C9: a requeue called on an id that has no row, or whose row is not
\* 'failed', answers with an error and changes no row and starts no update.
C9_RequeueRejected ==
    [][ \A t \in Ids :
          ( /\ RequeueSelect(t)
            /\ (t \notin DOMAIN tasks \/ tasks[t].status # "failed") )
          => /\ resp' \in {400, 500}
             /\ tasks' = tasks
             /\ rq' = rq ]_vars

\* A requeue of a completed task has just been answered 400.
C9_Witness ==
    /\ resp = 400
    /\ \E t \in TaskIds : tasks[t].status = "completed"

\* C10: the UPDATE of a successful requeue sets status to pending, clears
\* log, start_time and end_time, keeps script, url and added_time of the row
\* and leaves every other row and the set of ids as they were.
C10_RequeueEffect ==
    [][ \A t \in Ids :
          ( RequeueUpdate(t) /\ resp' = 200 /\ t \in DOMAIN tasks )
          => /\ DOMAIN tasks' = DOMAIN tasks
             /\ tasks'[t].status = "pending"
             /\ tasks'[t].log = Null
             /\ tasks'[t].start_time = Null
             /\ tasks'[t].end_time = Null
             /\ tasks'[t].script = tasks[t].script
             /\ tasks'[t].url = tasks[t].url
             /\ tasks'[t].added_time = tasks[t].added_time
             /\ \A u \in DOMAIN tasks : u # t => tasks'[u] = tasks[u] ]_vars

\* A task that ran and failed has just been requeued: it is pending again
\* with its run artifacts cleared.
C10_Witness ==
    /\ resp = 200
    /\ calls = 2
    /\ Len(workers) >= 1
    /\ TaskIds = {1}
    /\ tasks[1].status = "pending"
    /\ tasks[1].start_time = Null
    /\ tasks[1].end_time = Null
    /\ tasks[1].log = Null

\* The id the last successful add() returned.
LastIssued == issued[Len(issued)]

\* The entries of the list for task i.
Listed(i) == { k \in DOMAIN JobsBody : JobsBody[k].id = i }

\* C11 (as stated): a list operation that follows the enqueue that returned
\* id i, with ticks and worker steps between the two calls, returns a task
\* with id i and status 'pending'.
C11_EnqueueVisibility ==
    [][ (Jobs /\ resp' = 200 /\ issued # << >>) =>
          \E k \in Listed(LastIssued) : JobsBody[k].status = "pending" ]_vars

\* No thread started for task i has got past its first statement, and no
\* thread has ended.
NoWorkerRan(i) ==
    \A k \in DOMAIN workers :
        /\ workers[k].pc # "done"
        /\ workers[k].tid = i => workers[k].pc = "mark"

\* C11 (amended): the state an enqueue that returned id i leaves is one
\* whose list holds id i with status 'pending'; a list operation made
\* later, with no delete in between, returns exactly one task with id i,
\* with status 'pending' as long as no worker has run and with one of the
\* four statuses otherwise.
C11_VisibleUntilStarted ==
    [][ /\ \A u \in Urls, at \in Times :
              (Add(u, at) /\ resp' = 200) =>
                  \E k \in DOMAIN JobsBody' :
                      /\ JobsBody'[k].id = NextRowId
                      /\ JobsBody'[k].status = "pending"
        /\ (Jobs /\ resp' = 200 /\ issued # << >>) =>
              /\ Cardinality(Listed(LastIssued)) = 1
              /\ \A k \in Listed(LastIssued) :
                    /\ JobsBody[k].status \in
                          {"pending", "active", "completed", "failed"}
                    /\ NoWorkerRan(LastIssued) =>
                          JobsBody[k].status = "pending" ]_vars

\* A list has just been answered, after one enqueue that returned id 1 and
\* a tick whose worker has marked task 1 active in between.
C11_Witness ==
    /\ resp = 200
    /\ calls = 2
    /\ issued = << 1 >>
    /\ 1 \in TaskIds
    /\ tasks[1].status = "active"

\* C12: the ids add() returns are strictly increasing, so an id returned by
\* an enqueue differs from every id an earlier enqueue returned, whatever
\* deletes ran in between.
C12_IdsNeverReused ==
    \A a, b \in DOMAIN issued : a < b => issued[a] < issued[b]

\* C13: in each run of a task start_time is written once: the worker that
\* writes it with its first statement finds it NULL, as creation and requeue
\* left it, and the worker that writes end_time finds it NULL.
C13_TimesWrittenOnce ==
    [][ \A i \in DOMAIN workers :
          /\ ( /\ workers[i].pc = "mark"
               /\ workers'[i].marked
               /\ workers[i].tid \in DOMAIN tasks )
             => tasks[workers[i].tid].start_time = Null
          /\ ( /\ workers[i].pc \in {"status", "except"}
               /\ workers'[i].pc = "done"
               /\ workers[i].tid \in DOMAIN tasks
               /\ tasks' # tasks )
             => tasks[workers[i].tid].end_time = Null ]_vars

\* A step of process_queue: the dispatcher moves or threads are started.
TickStep == disp' # disp \/ Len(workers') > Len(workers)

\* A step of some run_task thread.
WorkerStep ==
    \E i \in DOMAIN workers : workers'[i] # workers[i]

\* C14: a dispatcher tick leaves the task table unchanged; a worker step
\* removes no task; the set of task ids shrinks only in a step of
\* clear_completed or clear_all, and a step that is neither adds or removes
\* no id unless it is an add.
C14_SchedulerKeepsTasks ==
    [][ /\ TickStep => tasks' = tasks
        /\ WorkerStep => DOMAIN tasks' = DOMAIN tasks
        /\ ~(DOMAIN tasks \subseteq DOMAIN tasks') =>
              (ClearCompleted \/ ClearAll) ]_vars

\* Two tasks were enqueued, ticks started a worker for each, both workers
\* have run to their end, and both rows are still in the table.
C14_Witness ==
    /\ calls = 2
    /\ issued = << 1, 2 >>
    /\ Len(workers) = 2
    /\ \A i \in DOMAIN workers : workers[i].pc = "done"
    /\ disp.pc = "idle"
    /\ TaskIds = {1, 2}
    /\ \A t \in TaskIds : tasks[t].status \in {"completed", "failed"}

\* C15: when a worker's process has exited with some code and the final
\* status update takes effect, the task's status becomes 'completed' if the
\* code is 0 and 'failed' for every other code, end_time is set by the same
\* statement, and nothing else of the table changes.
C15_StatusFollowsExitCode ==
    [][ \A i \in DOMAIN workers, code \in ExitCodes :
          ( /\ RunTaskStatusOn(i, "ok", code)
            /\ workers[i].tid \in DOMAIN tasks )
          => LET t == workers[i].tid IN
             /\ (tasks'[t].status = "completed") <=> (code = 0)
             /\ (tasks'[t].status = "failed") <=> (code # 0)
             /\ tasks'[t].end_time = Stamp
             /\ tasks' = [tasks EXCEPT ![t] =
                   [@ EXCEPT !.status = tasks'[t].status,
                             !.end_time = Stamp]] ]_vars

\* Two workers have ended after their processes exited: the task of one is
\* completed and that of the other failed, each with its log written, its
\* start_time and its end_time.
C15_Witness ==
    /\ Len(workers) = 2
    /\ \A i \in DOMAIN workers : workers[i].pc = "done"
    /\ \E a, b \in TaskIds :
          /\ tasks[a].status = "completed"
          /\ tasks[b].status = "failed"
          /\ \A t \in {a, b} :
                /\ tasks[t].log # Null
                /\ tasks[t].start_time = Stamp
                /\ tasks[t].end_time = Stamp

\* C16: in every reachable state the concurrency setting the dispatcher
\* reads is a positive integer.
C16_ConcurrencyPositive == settings >= 1

\* C17: once every one of a set of set_concurrency requests has returned
\* with success, the concurrency in memory and the one in settings.json are
\* the same value, the value of one of the requests.
C17_SettersSerialized ==
    ( /\ sc # << >>
      /\ \A k \in DOMAIN sc : sc[k].pc = "returned" /\ sc[k].code = 204 )
    => /\ settings = settings_file
       /\ \E k \in DOMAIN sc : settings = sc[k].val

\* C18: a call of execute_db_query makes at most 3 attempts; every attempt
\* before its last met "database is locked"; it returns exactly when its
\* last attempt succeeded; it raises on the first error that is not
\* "database is locked", and on "database is locked" only at the 3rd
\* attempt.
C18_RetryBound ==
    (q # NoQuery /\ q[1].result # "") =>
        LET n   == q[1].attempts
            att == q[1].att
        IN  /\ n \in 1..3
            /\ \A k \in 1..(n - 1) : att[k] = "locked"
            /\ (q[1].result = "ok") <=> (att[n] = "ok")
            /\ (q[1].result = "raise") <=> (att[n] # "ok")
            /\ att[n] = "locked" => n = 3

\* A call that met "database is locked" three times has raised after its
\* 3rd attempt, and one that met it twice has returned from its 3rd.
C18_Witness ==
    /\ q # NoQuery
    /\ q[1].attempts = 3
    /\ q[1].att[1] = "locked"
    /\ q[1].att[2] = "locked"
    /\ q[1].att[3] = "locked"
    /\ q[1].result = "raise"

\* A step in which a tick raises: its first SELECT, its SELECT of the
\* pending rows, or Thread.start.
TickRaises ==
    \/ ProcessQueueReadOn("raise")
    \/ \E rows \in PendingOrders : LaunchOn(MaxWorkersT, "raise", rows)
    \/ LaunchRaise(MaxWorkersT)

\* C19: a tick that raises ends with the dispatcher back between two ticks,
\* holding nothing of the failed one, with the table and the settings as
\* they were and the threads it had started running; and whenever the
\* dispatcher is between two ticks the next tick can run.
C19_FailingTickContained ==
    /\ [](disp.pc = "idle" => ENABLED ProcessQueueRead)
    /\ [][ TickRaises =>
             /\ disp' = Idle
             /\ tasks' = tasks
             /\ settings' = settings
             /\ \A k \in DOMAIN workers : workers'[k] = workers[k] ]_vars

\* Threads for task 1, task 1 and task 2, none of them past its first
\* statement: the first tick started a thread for task 1 and raised at the
\* Thread.start for task 2 (it would have started both otherwise), and the
\* next tick read both rows, still pending, and started a thread for each.
C19_Witness ==
    /\ disp = Idle
    /\ Len(workers) = 3
    /\ workers[1].tid = 1
    /\ workers[2].tid = 1
    /\ workers[3].tid = 2
    /\ \A k \in DOMAIN workers : workers[k].pc = "mark"

\* Worker i is the only thread that has ever been started for its task: no
\* other thread holds the task, and none has ended.
SoleWorker(i) ==
    \A k \in DOMAIN workers :
        k # i => (workers[k].pc # "done" /\ workers[k].tid # workers[i].tid)

\* Worker i stands before the final status update and the log in the Store
\* is not the one it flushed last: its final log update raised.
FinalFlushFailed(i) ==
    /\ workers[i].pc = "status"
    /\ SoleWorker(i)
    /\ tasks[workers[i].tid].log # Some(workers[i].log_lines)

\* C20: a worker whose final log flush raised ends with its task 'failed',
\* never 'completed'.
C20_FlushFaultFails ==
    [][ \A i \in DOMAIN workers :
          (FinalFlushFailed(i) /\ workers'[i].pc = "done")
          => tasks'[workers[i].tid].status = "failed" ]_vars

\* C21: a clear_completed or clear_all whose DELETE took effect calls
\* checkpoint_database before it answers 204, and one whose DELETE raised
\* answers 500 without the call and with the table as it was; the interval
\* job of the scheduler and the manual trigger each make the call.
C21_DeleteThenCompaction ==
    [][ /\ ((ClearCompleted \/ ClearAll) /\ resp' = 204) => checkpoints' \in {1, 2}
        /\ ((ClearCompleted \/ ClearAll) /\ resp' # 204) =>
              (checkpoints' = 0 /\ resp' = 500 /\ tasks' = tasks)
        /\ CheckpointJob => (checkpoints' \in {1, 2} /\ tasks' = tasks)
        /\ ManualCheckpoint => (checkpoints' \in {1, 2} /\ resp' = 200) ]_vars

\* clear_all has just deleted both tasks while a worker was reading the
\* output of its process, and has made its checkpoint call.
C21_Witness ==
    /\ resp = 204
    /\ checkpoints = 1
    /\ tasks = << >>
    /\ \E i \in DOMAIN workers : workers[i].pc = "stream"

\* C27: a clear_completed whose DELETE took effect removes exactly the
\* tasks that were 'completed' and leaves every other task as it was, field
\* by field; a clear_all whose DELETE took effect leaves no task, whatever
\* the statuses were; neither changes a worker.
C27_ClearFrame ==
    [][ /\ (ClearCompleted /\ resp' = 204) =>
              /\ DOMAIN tasks' =
                    { t \in DOMAIN tasks : tasks[t].status # "completed" }
              /\ \A t \in DOMAIN tasks' : tasks'[t] = tasks[t]
        /\ (ClearAll /\ resp' = 204) => DOMAIN tasks' = {}
        /\ (ClearCompleted \/ ClearAll) => workers' = workers ]_vars

\* clear_completed has just removed task 1, which had completed, and kept
\* task 2, which is active, or failed with its log.
C27_Witness ==
    /\ resp = 204
    /\ checkpoints = 1
    /\ TaskIds = {2}
    /\ tasks[2].status \in {"active", "failed"}
    /\ tasks[2].start_time = Stamp

\* C22: a worker comes to its final status update only through the final
\* log update, which is made whenever the output has ended, whatever the
\* line count and the time since the last write, and which, when it takes
\* effect, writes every line read; a step in which a worker sets a task
\* 'completed', or sets it 'failed' after the exit of the process, is made
\* by a worker that has been through the final log update.
C22_FinalFlushBeforeStatus ==
    /\ [](\A i \in DOMAIN workers :
             workers[i].pc = "stream" => ENABLED RunTaskFinalLogOn(i, "ok"))
    /\ [][ \A i \in DOMAIN workers :
             /\ (workers[i].pc # "status" /\ workers'[i].pc = "status") =>
                   \E r \in DbResults : RunTaskFinalLogOn(i, r)
             /\ (RunTaskFinalLogOn(i, "ok") /\ workers[i].tid \in DOMAIN tasks) =>
                   tasks'[workers[i].tid].log = Some(workers[i].log_lines)
             /\ (\E code \in ExitCodes : RunTaskStatusOn(i, "ok", code)) =>
                   workers[i].pc = "status"
             /\ ( /\ workers'[i] # workers[i]
                  /\ \E t \in DOMAIN tasks :
                        /\ tasks'[t].status = "completed"
                        /\ tasks[t].status # "completed" )
                => workers[i].pc = "status" ]_vars

\* The only worker started for its task stands before its final status
\* update: the process wrote one line, no batch update was due for it, and
\* the final update has stored it while the task is still 'active'.
C22_Witness ==
    \E i \in DOMAIN workers :
        /\ workers[i].pc = "status"
        /\ SoleWorker(i)
        /\ workers[i].log_lines # << >>
        /\ workers[i].line_count = Len(workers[i].log_lines)
        /\ tasks[workers[i].tid].status = "active"
        /\ tasks[workers[i].tid].log = Some(workers[i].log_lines)

\* C23: a worker thread that has ended, by whatever route, holds no open
\* connection to the Store.
C23_ConnectionClosed ==
    \A i \in DOMAIN workers :
        workers[i].pc = "done" => ~workers[i].connection

\* Both workers have ended by the except clause: task 1 is 'failed' without
\* ever having been marked active (the first statement raised, the
\* fallback write took effect), and task 2 is left 'active' (marked, then an
\* exception, and the fallback write raised too).
C23_Witness ==
    /\ Len(workers) = 2
    /\ \A i \in DOMAIN workers : workers[i].pc = "done"
    /\ tasks[1].status = "failed"
    /\ tasks[1].start_time = Null
    /\ tasks[2].status = "active"

\* The greedy FIFO selection over the pending list rows (ids, oldest
\* first), the active scripts S and the concurrency C: the candidates are
\* the rows whose script is not in S and is the script of no earlier row
\* of the list; the first C - |S| candidates are selected.
GreedyCandidates(rows, S) ==
    { k \in DOMAIN rows :
        /\ tasks[rows[k]].script \notin S
        /\ \A j \in 1..(k - 1) : tasks[rows[j]].script # tasks[rows[k]].script }

GreedyPicked(rows, S, C) ==
    { k \in GreedyCandidates(rows, S) :
        Cardinality({ j \in GreedyCandidates(rows, S) : j < k })
            < C - Cardinality(S) }

GreedyFifo(rows, S, C) ==
    [n \in 1..Cardinality(GreedyPicked(rows, S, C)) |->
        rows[CHOOSE k \in GreedyPicked(rows, S, C) :
                Cardinality({ j \in GreedyPicked(rows, S, C) : j < k }) = n - 1]]

\* The ids of the tasks a step starts a thread for, in the order of the
\* starts.
StartedSeq ==
    [n \in 1..(Len(workers') - Len(workers)) |-> workers'[Len(workers) + n].tid]

\* C24: a tick that reads C and S with C - |S| <= 0 ends without starting a
\* thread; a tick that reads the pending list starts threads for exactly
\* the tasks of the greedy FIFO selection, in that order, hence at most
\* C - |S| of them and no two of one script; a tick whose Thread.start
\* raises has started the selection up to that task.
C24_GreedyFifoSelection ==
    [][ /\ ( /\ ProcessQueueReadOn("ok")
             /\ settings - Cardinality(DistinctActiveScripts) <= 0 )
           => (disp' = Idle /\ workers' = workers)
        /\ \A rows \in PendingOrders :
             /\ LaunchOn(MaxWorkersG, "ok", rows) =>
                   /\ StartedSeq = GreedyFifo(rows, disp.active_scripts, disp.maxc)
                   /\ Len(StartedSeq) <= disp.maxc - Cardinality(disp.active_scripts)
                   /\ \A a, b \in DOMAIN StartedSeq :
                         a # b => tasks[StartedSeq[a]].script # tasks[StartedSeq[b]].script
             /\ \A n \in 0..Len(rows) :
                   LaunchRaiseOn(MaxWorkersG, rows, n) =>
                     StartedSeq =
                       SubSeq(GreedyFifo(rows, disp.active_scripts, disp.maxc), 1, n)
      ]_vars

\* Concurrency 2, task 1 active for one site, task 2 pending for the same
\* site and task 3 pending for another: the tick had one slot, passed over
\* task 2 and started a thread for task 3 alone.
C24_Witness ==
    /\ settings = 2
    /\ disp = Idle
    /\ tasks[1].status = "active"
    /\ PendingIds = {2, 3}
    /\ tasks[2].script = tasks[1].script
    /\ tasks[3].script # tasks[1].script
    /\ tasks[2].added_time < tasks[3].added_time
    /\ Len(workers) = 1
    /\ workers[1].tid = 3

\* A tick reads the pending rows without an exception and runs its loop.
TickScans == \E rows \in PendingOrders : LaunchOn(MaxWorkersL, "ok", rows)

\* C25: when ticks go on reading the pending rows, every launched process
\* exits, the concurrency stays at least 1 and no task is deleted, every
\* pending task is eventually taken up: it does not stay pending for ever.
\* (The claim goes on: it becomes active and then completed or failed.)
C25_NoStarvation ==
    ([]<><<TickScans>>_vars) =>
        \A t \in Ids : (t \in PendingIds) ~> (t \notin PendingIds)

\* The lines worker i has read that are not in the log of its task.
Unpersisted(i) ==
    Len(workers[i].log_lines) - Len(LogText(tasks[workers[i].tid].log))

\* C26 (the threshold of 50 lines is FlushLines here): while a worker
\* streams, its counter is the number of lines read and not yet stored; with
\* no time flush due it attempts a log update on a line exactly when that
\* line brings the counter to the threshold or beyond; an update that takes
\* effect stores every line read and resets the counter, so after a line
\* whose update succeeded fewer lines than the threshold are unstored; an
\* update that raises leaves the log and adds the line to the counter, so
\* the next line attempts again.
C26_BatchFlushByCount ==
    /\ [](\A i \in DOMAIN workers :
             workers[i].pc = "stream" =>
               /\ Unpersisted(i) = workers[i].line_count
               /\ Len(workers[i].log_lines) < MaxLinesF =>
                     ( ENABLED RunTaskLineOn(i, MaxLinesF, "raise", FALSE)
                       <=> workers[i].line_count + 1 >= FlushLines ))
    /\ [][ \A i \in DOMAIN workers, elapsed \in BOOLEAN :
             /\ RunTaskLineOn(i, MaxLinesF, "ok", elapsed) =>
                   /\ workers'[i].line_count < FlushLines
                   /\ workers[i].line_count + 1 >= FlushLines =>
                         /\ workers'[i].line_count = 0
                         /\ tasks'[workers[i].tid].log = Some(workers'[i].log_lines)
                         /\ Len(workers'[i].log_lines) = Len(workers[i].log_lines) + 1
             /\ RunTaskLineOn(i, MaxLinesF, "raise", elapsed) =>
                   /\ tasks' = tasks
                   /\ workers'[i].line_count = workers[i].line_count + 1 ]_vars

\* The worker has read three lines and none is stored: the update due on
\* the second line raised, so did the one attempted again on the third,
\* and the counter stands at three.
C26_Witness ==
    /\ workers[1].pc = "stream"
    /\ Len(workers[1].log_lines) = FlushLines + 1
    /\ workers[1].line_count = FlushLines + 1
    /\ tasks[1].log = Null

\* C28: no two worker threads run for one task at a time.  (In scenario A
\* no task is requeued, so every task has a single pending episode and two
\* live workers of one task were both launched in it.)
C28_NoDoubleDispatch ==
    \A a, b \in DOMAIN workers :
        ( /\ a # b
          /\ workers[a].pc # "done"
          /\ workers[b].pc # "done" )
        => workers[a].tid # workers[b].tid

\* C29: a worker that has marked its task active changes, with its later
\* writes, only that task: never a row that no worker has marked, such as
\* the row of a task enqueued after the worker's own task was deleted.
C29_WritesOwnTaskOnly ==
    [][ \A i \in DOMAIN workers :
          ( /\ workers[i].marked
            /\ workers'[i] # workers[i]
            /\ tasks' # tasks )
          => tasks[workers[i].tid].start_time # Null ]_vars

\* C30: no two external processes run for one script at a time: no two
\* workers of one script read the output of their processes together.
C30_OneProcessPerScript ==
    \A a, b \in DOMAIN workers :
        ( /\ a # b
          /\ workers[a].pc = "stream"
          /\ workers[b].pc = "stream" )
        => workers[a].script # workers[b].script


\* C31: the UPDATE of a requeue that takes effect on a row finds that row
\* 'failed': a requeue never sets a task that is not failed at the moment of
\* the write to pending, nor clears its log, start_time and end_time.
C31_RequeueWritesFailedOnly ==
    [][ \A id \in Ids :
          ( RequeueUpdate(id) /\ resp' = 200 /\ id \in DOMAIN tasks )
          => tasks[id].status = "failed" ]_vars

\* The sequence a is a prefix of the sequence b.
IsPrefix(a, b) == Len(a) <= Len(b) /\ SubSeq(b, 1, Len(a)) = a

\* Worker i has marked its task and has not ended.
Running(i) == workers[i].marked /\ workers[i].pc # "done"

\* The log of the task of a running worker is NULL, empty or a prefix of
\* the lines that worker has read so far.
LogIsPrefix ==
    \A i \in DOMAIN workers :
        (Running(i) /\ workers[i].tid \in TaskIds) =>
            IsPrefix(LogText(tasks[workers[i].tid].log), workers[i].log_lines)

\* No step of a worker makes the log of a task shorter.
LogNeverShortened ==
    \A id \in TaskIds \cap DOMAIN tasks' :
        (workers' # workers) =>
            Len(LogText(tasks'[id].log)) >= Len(LogText(tasks[id].log))

\* C32: while a task runs, its persisted log is NULL, empty or a prefix of
\* the lines its worker has read so far, and no write of a worker makes it
\* shorter.
C32_LogPrefixMonotone == []LogIsPrefix /\ [][LogNeverShortened]_vars

\* C33: a set_concurrency request answered with an error leaves the
\* concurrency the next ticks read, settings['concurrency'], as it was.
C33_FailedSetKeepsConcurrency ==
    [][ \A v \in PostedValues :
          ( SetConcurrency(v) /\ resp' = 500 ) => settings' = settings ]_vars

\* C34: a step in which checkpoint_database met an exception is a
\* clear_completed or a clear_all that answers 204 with its rows deleted, a
\* manual trigger that answers 200, or a run of the interval job, which
\* changes nothing else; no such step answers with an error, and after it
\* the interval job can run again.
C34_CompactionFailureContained ==
    /\ [](checkpoints = 2 => (resp # 500 /\ ENABLED CheckpointJob))
    /\ [][ checkpoints' = 2 =>
             /\ ClearCompleted =>
                   /\ resp' = 204
                   /\ tasks' = [t \in KeptByClearCompleted |-> tasks[t]]
             /\ ClearAll => (resp' = 204 /\ tasks' = << >>)
             /\ ManualCheckpoint => (resp' = 200 /\ tasks' = tasks)
             /\ (ClearCompleted \/ ClearAll \/ ManualCheckpoint
                   \/ CheckpointJob) ]_vars

\* clear_completed has just removed task 1, which had completed, kept task
\* 2 and answered 204, although its checkpoint raised.
C34_Witness ==
    /\ checkpoints = 2
    /\ resp = 204
    /\ TaskIds = {2}
    /\ \E i \in DOMAIN workers : workers[i].pc = "done"

\* The threads of run_task that have been started and have not ended.
RunningWorkers == { i \in DOMAIN workers : workers[i].pc # "done" }

\* C35: active_count is never negative and is the number of worker threads
\* running.
C35_ActiveCountTracksWorkers ==
    /\ active_count >= 0
    /\ active_count = Cardinality(RunningWorkers)

====
